---- MODULE Spec2Model ----
(***************************************************************************)
(* A model of the tree and graph building blocks of rust-graphql-router:   *)
(*   models/src/tree.rs  Tree, Tree::has_prefix, TreeIterator,             *)
(*                       TreeIterationState                                *)
(*   model/src/graph.rs  Graph, Relationship::invert, Graph::links         *)
(*                                                                         *)
(* A reference &Tree<T> into the borrowed tree is modelled by the path of  *)
(* child indices (1-based) that leads from the root to the node, so that   *)
(* two nodes with equal values and equal subtrees stay distinct.  An       *)
(* Option<X> is a sequence of length 0 (None) or 1 (Some).                 *)
(***************************************************************************)
EXTENDS Naturals, Sequences, FiniteSets

VARIABLES
    root,       \* the Tree<T> the caller built and the traversal borrows
    condition,  \* TreeIterator.condition: the predicate, a function T -> bool
    queue,      \* TreeIterator.queue: VecDeque<TreeIterationState>
    yielded,    \* the states next() has returned so far, owned by the consumer
    ret,        \* what the last call of next() returned
    pc,         \* "start": no iterator yet; "constructed"; "called": next() ran
    calls,      \* how many times the consumer has called next() on the iterator
    candidate,  \* has_prefix: self
    pattern,    \* has_prefix: other
    result,     \* has_prefix: the returned bool, None before the call
    graph,      \* the Graph<T> the caller built
    out,        \* what links() returned, None before the call
    rels        \* a Relationship followed by the results of invert() on it

vars == <<root, condition, queue, yielded, ret, pc, calls,
          candidate, pattern, result, graph, out, rels>>

traversalVars == <<root, condition, queue, yielded, ret, pc, calls>>
prefixVars == <<candidate, pattern, result>>
graphVars == <<graph, out, rels>>

\* Bounds of the model.
MaxNodes == 5
MaxPrefixNodes == 4
MaxGraphSize == 4
MaxInverts == 2
MaxExtraCalls == 2

\* The node labels T of the trees: two of the TestValues of the tests.
Values == {"A", "B"}

\* The node labels T of the graphs: the TestNodes of the tests.
TestNodes == {"A", "B"}

None == <<>>
Some(x) == <<x>>

----------------------------------------------------------------------------
(* Tree<T>: a value and an ordered sequence of owned child trees.          *)

Tree(value, children) == [value |-> value, children |-> children]

RECURSIVE TreesOfSize(_), Forests(_)
\* Every Tree with exactly n nodes.
TreesOfSize(n) == {Tree(v, cs) : v \in Values, cs \in Forests(n - 1)}

\* Every sequence of Trees (a children vector) with m nodes in total.
Forests(m) ==
    IF m = 0 THEN {<<>>}
    ELSE UNION {{<<t>> \o f : t \in TreesOfSize(k), f \in Forests(m - k)} : k \in 1..m}

TreesUpTo(n) == UNION {TreesOfSize(k) : k \in 1..n}

\* The leaf the variables of an operation that is not running hold.
IdleTree == Tree("A", <<>>)

RECURSIVE Deref(_, _)
\* The node a reference (a path of child indices) points to in tree t.
Deref(t, path) ==
    IF path = <<>> THEN t ELSE Deref(t.children[Head(path)], Tail(path))

RECURSIVE Nodes(_)
\* The references to all nodes of tree t.
Nodes(t) ==
    {<<>>} \cup UNION {{<<i>> \o p : p \in Nodes(t.children[i])} : i \in DOMAIN t.children}

\* Reference a is b or an ancestor of b.
IsPrefix(a, b) == Len(a) <= Len(b) /\ SubSeq(b, 1, Len(a)) = a

----------------------------------------------------------------------------
(* TreeIterationState and TreeIterator.                                    *)

\* struct TreeIterationState { tree: &Tree<T>, parent: Option<Box<Self>> }
TreeIterationState(tree, parent) == [tree |-> tree, parent |-> parent]

\* The predicates the caller may pass: every function from T to bool.
Conditions == [Values -> BOOLEAN]

AlwaysTrue == [v \in Values |-> TRUE]

\* #[derive(Clone)]: a deep copy, the boxed parent chain included.
clone(state) == state

RECURSIVE path_to_root_loop(_, _)
\* while let Some(parent) = &current.parent { path.push(parent.tree); current = parent; }
path_to_root_loop(path, current) ==
    IF current.parent = None THEN path
    ELSE LET parent == current.parent[1]
         IN  path_to_root_loop(Append(path, parent.tree), parent)

\* A plausible slip: the walk pushes the current state's node, not its parent's.
path_to_root_self(self) ==
    LET RECURSIVE walk(_, _)
        walk(path, current) ==
            IF current.parent = None THEN path
            ELSE walk(Append(path, current.tree), current.parent[1])
    IN  walk(<<>>, self)

\* TreeIterationState::path_to_root
path_to_root(self) == path_to_root_loop(<<>>, self)

\* A plausible slip: the queue is seeded without asking the condition.
new_with_condition_unchecked(tree, cond) ==
    [queue |-> <<TreeIterationState(<<>>, None)>>, condition |-> cond]

\* TreeIterator::new_with_condition: the queue holds the root state only if
\* the root's value passes the condition.
new_with_condition(tree, cond) ==
    [queue |-> IF cond[tree.value] THEN <<TreeIterationState(<<>>, None)>> ELSE <<>>,
     condition |-> cond]

\* TreeIterator::new
new(tree) == new_with_condition(tree, AlwaysTrue)

\* A plausible slip: the child is linked to its grandparent's state.
children_states_skip(node) ==
    [i \in 1..Len(Deref(root, node.tree).children) |->
        TreeIterationState(Append(node.tree, i), node.parent)]

\* The states next() pushes for the children of node, in child order.
children_states(node) ==
    [i \in 1..Len(Deref(root, node.tree).children) |->
        TreeIterationState(Append(node.tree, i), Some(clone(node)))]

RECURSIVE next_push_front(_, _)
\* A plausible slip: push_front instead of push_back (a stack, not a queue).
next_push_front(q, cond) ==
    IF q = <<>> THEN [queue |-> q, ret |-> None]
    ELSE LET node == Head(q)
             cs == children_states(node)
         IN  IF cond[Deref(root, node.tree).value]
             THEN [queue |-> [i \in 1..Len(cs) |-> cs[Len(cs) + 1 - i]] \o Tail(q),
                   ret |-> Some(node)]
             ELSE next_push_front(Tail(q), cond)

RECURSIVE next_filter(_, _)
\* A plausible slip: a failing node is skipped but its children are still
\* pushed (a filter instead of a barrier).
next_filter(q, cond) ==
    IF q = <<>> THEN [queue |-> q, ret |-> None]
    ELSE LET node == Head(q)
         IN  IF cond[Deref(root, node.tree).value]
             THEN [queue |-> Tail(q) \o children_states(node), ret |-> Some(node)]
             ELSE next_filter(Tail(q) \o children_states(node), cond)

RECURSIVE next_unchecked(_, _)
\* A plausible slip: the popped node is returned without asking the condition.
next_unchecked(q, cond) ==
    IF q = <<>> THEN [queue |-> q, ret |-> None]
    ELSE LET node == Head(q)
         IN  [queue |-> Tail(q) \o children_states(node), ret |-> Some(node)]

RECURSIVE next_drop_last(_, _)
\* A plausible slip: the loop over the children stops one short.
next_drop_last(q, cond) ==
    IF q = <<>> THEN [queue |-> q, ret |-> None]
    ELSE LET node == Head(q)
             cs == children_states(node)
         IN  IF cond[Deref(root, node.tree).value]
             THEN [queue |-> Tail(q) \o SubSeq(cs, 1, Len(cs) - 1), ret |-> Some(node)]
             ELSE next_drop_last(Tail(q), cond)

\* A plausible slip: the front is looked at, not popped, before the condition
\* is asked; a failing front ends the call and stays in the queue.
next_peek(q, cond) ==
    IF q = <<>> THEN [queue |-> q, ret |-> None]
    ELSE LET node == Head(q)
         IN  IF cond[Deref(root, node.tree).value]
             THEN [queue |-> Tail(q) \o children_states(node), ret |-> Some(node)]
             ELSE [queue |-> q, ret |-> None]

RECURSIVE next_restart(_, _)
\* A plausible slip: a call on an empty queue seeds it with the root again.
next_restart(q, cond) ==
    IF q = <<>> THEN [queue |-> <<TreeIterationState(<<>>, None)>>, ret |-> None]
    ELSE LET node == Head(q)
         IN  IF cond[Deref(root, node.tree).value]
             THEN [queue |-> Tail(q) \o children_states(node), ret |-> Some(node)]
             ELSE next_restart(Tail(q), cond)

RECURSIVE next(_, _)
\* TreeIterator::next on a queue q: pop the front until a node passes the
\* condition; push its children and return it.  A node that fails is dropped
\* with nothing pushed.  None once the queue is empty.
next(q, cond) ==
    IF q = <<>> THEN [queue |-> q, ret |-> None]
    ELSE LET node == Head(q)
         IN  IF cond[Deref(root, node.tree).value]
             THEN [queue |-> Tail(q) \o children_states(node), ret |-> Some(node)]
             ELSE next(Tail(q), cond)

----------------------------------------------------------------------------
(* The traversal: a caller builds a tree, makes one iterator and calls     *)
(* next() on it any number of times, keeping what it returns.              *)

\* The consumer calls next() until it returns None (at most once per node
\* and once more) and up to MaxExtraCalls times after that.
MaxCalls == MaxNodes + 1 + MaxExtraCalls

IdleTraversal ==
    /\ root = IdleTree
    /\ condition = AlwaysTrue
    /\ queue = <<>>
    /\ yielded = <<>>
    /\ ret = None
    /\ pc = "idle"
    /\ calls = 0

IdlePrefix ==
    /\ candidate = IdleTree
    /\ pattern = IdleTree
    /\ result = None

IdleGraph ==
    /\ graph = [nodes |-> <<>>]
    /\ out = None
    /\ rels = <<>>

Init ==
    /\ root \in TreesUpTo(MaxNodes)
    /\ condition = AlwaysTrue
    /\ queue = <<>>
    /\ yielded = <<>>
    /\ ret = None
    /\ pc = "start"
    /\ calls = 0
    /\ IdlePrefix
    /\ IdleGraph

\* Tree::iter
iter ==
    /\ pc = "start"
    /\ LET it == new(root)
       IN  /\ queue' = it.queue
           /\ condition' = it.condition
    /\ pc' = "constructed"
    /\ UNCHANGED <<root, yielded, ret, calls, prefixVars, graphVars>>

\* Tree::iter_condition
iter_condition ==
    /\ pc = "start"
    /\ \E cond \in Conditions :
        LET it == new_with_condition(root, cond)
        IN  /\ queue' = it.queue
            /\ condition' = it.condition
    /\ pc' = "constructed"
    /\ UNCHANGED <<root, yielded, ret, calls, prefixVars, graphVars>>

\* A design that does not persist the parent chain: the states handed out
\* earlier lose their parent once the traversal moves on.
CallNextForgetting ==
    /\ pc \in {"constructed", "called"}
    /\ calls < MaxCalls
    /\ LET r == next(queue, condition)
           old == [i \in DOMAIN yielded |-> [yielded[i] EXCEPT !.parent = None]]
       IN  /\ queue' = r.queue
           /\ ret' = r.ret
           /\ yielded' = IF r.ret = None THEN old ELSE Append(old, r.ret[1])
    /\ pc' = "called"
    /\ calls' = calls + 1
    /\ UNCHANGED <<root, condition, prefixVars, graphVars>>

\* One call of TreeIterator::next by the consumer, which keeps a Some result.
CallNext ==
    /\ pc \in {"constructed", "called"}
    /\ calls < MaxCalls
    /\ LET r == next(queue, condition)
       IN  /\ queue' = r.queue
           /\ ret' = r.ret
           /\ yielded' = IF r.ret = None THEN yielded ELSE Append(yielded, r.ret[1])
    /\ pc' = "called"
    /\ calls' = calls + 1
    /\ UNCHANGED <<root, condition, prefixVars, graphVars>>

Next == iter \/ iter_condition \/ CallNext

Spec == Init /\ [][Next]_vars

\* The consumer's loop keeps calling next() while a call can still be made.
FairSpec == Spec /\ WF_vars(CallNext)

----------------------------------------------------------------------------
(* Tree::has_prefix.                                                       *)

RECURSIVE has_prefix(_, _), for_possible(_, _, _), for_target(_, _, _),
          for_target_all(_, _, _), for_possible_skip(_, _, _)

\* A plausible slip: a pattern child that does not match ends the search.
for_target_all(possible, other, j) ==
    IF j > Len(other.children) THEN TRUE
    ELSE IF has_prefix(possible, other.children[j])
         THEN for_target_all(possible, other, j + 1)
         ELSE FALSE

\* for target in other.children.iter(), from the j-th child on: true at the
\* first target that possible has as a prefix.
for_target(possible, other, j) ==
    IF j > Len(other.children) THEN FALSE
    ELSE IF has_prefix(possible, other.children[j]) THEN TRUE
         ELSE for_target(possible, other, j + 1)

\* A plausible slip: only one child of self is tried.
for_possible_first(self, other, i) ==
    IF i > Len(self.children) THEN FALSE
    ELSE for_target(self.children[i], other, 1)

\* A plausible slip: the loop over the children of self starts one late.
for_possible_skip(self, other, i) ==
    IF i + 1 > Len(self.children) THEN FALSE
    ELSE IF for_target(self.children[i + 1], other, 1) THEN TRUE
         ELSE for_possible_skip(self, other, i + 1)

\* for possible in self.children.iter(), from the i-th child on.
for_possible(self, other, i) ==
    IF i > Len(self.children) THEN FALSE
    ELSE IF for_target(self.children[i], other, 1) THEN TRUE
         ELSE for_possible(self, other, i + 1)

\* Tree::has_prefix
has_prefix(self, other) ==
    IF self.value # other.value THEN FALSE
    ELSE IF Len(other.children) = 0 THEN TRUE
         ELSE for_possible(self, other, 1)

PrefixInit ==
    /\ candidate \in TreesUpTo(MaxPrefixNodes)
    /\ pattern \in TreesUpTo(MaxPrefixNodes)
    /\ result = None
    /\ IdleTraversal
    /\ IdleGraph

\* The caller evaluates candidate.has_prefix(&pattern).
CallHasPrefix ==
    /\ result = None
    /\ result' = Some(has_prefix(candidate, pattern))
    /\ UNCHANGED <<candidate, pattern, traversalVars, graphVars>>

PrefixNext == CallHasPrefix

PrefixSpec == PrefixInit /\ [][PrefixNext]_vars

----------------------------------------------------------------------------
(* Graph, Node, Target, Relationship, Link.                                *)

\* enum Relationship
Relationship == {"OneToOne", "OneToMany", "ManyToOne", "ManyToMany"}

Target(typ, rel) == [typ |-> typ, rel |-> rel]
Node(typ, targets) == [typ |-> typ, targets |-> targets]
Graph(nodes) == [nodes |-> nodes]
Link(from, to, rel) == [from |-> from, to |-> to, rel |-> rel]

Targets == {Target(t, r) : t \in TestNodes, r \in Relationship}

\* Every targets vector of length k.
TargetSeqs(k) == IF k = 0 THEN {<<>>} ELSE [1..k -> Targets]

\* Every Node with k targets.
NodesWith(k) == {Node(t, ts) : t \in TestNodes, ts \in TargetSeqs(k)}

RECURSIVE NodeSeqs(_)
\* Every nodes vector whose nodes and targets number m together.
NodeSeqs(m) ==
    IF m = 0 THEN {<<>>}
    ELSE UNION {{<<n>> \o g : n \in NodesWith(k - 1), g \in NodeSeqs(m - k)} : k \in 1..m}

GraphsUpTo(m) == {Graph(ns) : ns \in UNION {NodeSeqs(k) : k \in 0..m}}

\* A plausible slip: the two crossed variants map to themselves.
invert_same(self) == self

\* Relationship::invert
invert(self) ==
    CASE self = "OneToOne" -> "OneToOne"
      [] self = "OneToMany" -> "ManyToOne"
      [] self = "ManyToOne" -> "OneToMany"
      [] self = "ManyToMany" -> "ManyToMany"

\* n.targets.iter().map(|t| Link{from: &n.typ, to: &t.typ, rel: &t.rel})
map_targets(n) ==
    [j \in 1..Len(n.targets) |-> Link(n.typ, n.targets[j].typ, n.targets[j].rel)]

RECURSIVE flat_map(_)
\* self.nodes.iter().flat_map(..).collect()
flat_map(nodes) ==
    IF nodes = <<>> THEN <<>>
    ELSE map_targets(Head(nodes)) \o flat_map(Tail(nodes))

\* A plausible slip: a target whose label no node of the graph carries is
\* left out.
links_known_only(self) ==
    SelectSeq(flat_map(self.nodes),
              LAMBDA l : \E i \in DOMAIN self.nodes : self.nodes[i].typ = l.to)

\* Graph::links
links(self) == flat_map(self.nodes)

GraphInit ==
    /\ graph \in GraphsUpTo(MaxGraphSize)
    /\ out = None
    /\ rels \in {<<r>> : r \in Relationship}
    /\ IdleTraversal
    /\ IdlePrefix

\* The caller evaluates graph.links().
CallLinks ==
    /\ out = None
    /\ out' = Some(links(graph))
    /\ UNCHANGED <<graph, rels, traversalVars, prefixVars>>

\* The caller inverts the Relationship it got last.
CallInvert ==
    /\ Len(rels) <= MaxInverts
    /\ rels' = Append(rels, invert(rels[Len(rels)]))
    /\ UNCHANGED <<graph, out, traversalVars, prefixVars>>

GraphNext == CallLinks \/ CallInvert

GraphSpec == GraphInit /\ [][GraphNext]_vars

----------------------------------------------------------------------------
(* Properties of the traversal.                                            *)

Constructed == pc \in {"constructed", "called"}

\* next() has returned None: the consumer's loop over the iterator is over.
Exhausted == pc = "called" /\ ret = None

\* The set of nodes handed out so far.
YieldedNodes == {yielded[i].tree : i \in DOMAIN yielded}

\* The value of node n passes the iterator's condition.
Passes(n) == condition[Deref(root, n).value]

\* Node n and every ancestor of n pass the condition.
Kept(n) == \A k \in 0..Len(n) : Passes(SubSeq(n, 1, k))

\* Breadth-first position: a shallower node comes first; at equal depth the
\* node whose path is lexicographically smaller (children in stored order).
Before(p, q) ==
    \/ Len(p) < Len(q)
    \/ /\ Len(p) = Len(q)
       /\ \E k \in 1..Len(p) :
            /\ p[k] < q[k]
            /\ \A j \in 1..(k - 1) : p[j] = q[j]

\* C1: with the always-true predicate the traversal hands out no node twice,
\* never a deeper node before a shallower one, and, once next() has returned
\* None, every node of the tree.
C1_IterVisitsAllBreadthFirst ==
    (Constructed /\ condition = AlwaysTrue) =>
        /\ \A i, j \in DOMAIN yielded :
            i < j => /\ yielded[i].tree # yielded[j].tree
                     /\ Len(yielded[i].tree) <= Len(yielded[j].tree)
        /\ YieldedNodes \subseteq Nodes(root)
        /\ Exhausted => YieldedNodes = Nodes(root)

\* An exhausted unconditional traversal of a tree that branches at the root
\* and has a node at depth 2.
C1_Witness ==
    /\ Exhausted
    /\ condition = AlwaysTrue
    /\ Len(root.children) >= 2
    /\ \E n \in Nodes(root) : Len(n) = 2
    /\ Len(yielded) >= 4

\* C2: a node that fails the predicate is never handed out, and neither is
\* any of its descendants, whatever their own values.
C2_Barrier ==
    \A n \in Nodes(root) :
        (Constructed /\ ~Passes(n)) =>
            \A i \in DOMAIN yielded : ~IsPrefix(n, yielded[i].tree)

\* An exhausted traversal that handed out something although a failing node
\* below the root has a descendant that passes.
C2_Witness ==
    /\ Exhausted
    /\ yielded # <<>>
    /\ \E n, m \in Nodes(root) :
        /\ ~Passes(n)
        /\ m # n
        /\ IsPrefix(n, m)
        /\ Passes(m)

\* C3: path_to_root on a handed-out state of a node at depth d returns d
\* nodes: the node's ancestors, the parent first and the root last, without
\* the node itself (nothing for the root).
C3_PathToRootIsAncestors ==
    \A i \in DOMAIN yielded :
        LET s == yielded[i]
            d == Len(s.tree)
            path == path_to_root(s)
        IN  /\ Len(path) = d
            /\ \A k \in 1..d : path[k] = SubSeq(s.tree, 1, d - k)

\* The root's state and the state of a node at depth 2 have been handed out.
C3_Witness ==
    /\ \E i \in DOMAIN yielded : yielded[i].tree = <<>>
    /\ \E i \in DOMAIN yielded : Len(yielded[i].tree) = 2

\* C7: when the root's value fails the predicate the queue is never seeded,
\* next() returns None and nothing is ever handed out or queued.
C7_FailingRootEmpty ==
    (Constructed /\ ~condition[root.value]) =>
        /\ queue = <<>>
        /\ yielded = <<>>
        /\ pc = "called" => ret = None

\* next() was called on a traversal whose root fails although a descendant
\* passes.
C7_Witness ==
    /\ pc = "called"
    /\ ~condition[root.value]
    /\ \E n \in Nodes(root) : n # <<>> /\ Passes(n)

C9_QueuedPass ==
    \A i \in DOMAIN queue : Passes(queue[i].tree)

\* C9 as amended: a queued state is the root's and passes, or is a child's
\* and its parent passes; every state handed out passes.
C9_QueuedParentPasses ==
    /\ \A i \in DOMAIN queue :
        LET s == queue[i]
        IN  IF s.parent = None
            THEN s.tree = <<>> /\ Passes(s.tree)
            ELSE Kept(s.parent[1].tree)
    /\ \A i \in DOMAIN yielded : Passes(yielded[i].tree)
    /\ ret # None => Passes(ret[1].tree)

\* A queue that holds the state of a node that fails the predicate.
C9_Witness ==
    /\ pc = "called"
    /\ \E i \in DOMAIN queue : ~Passes(queue[i].tree)

\* C10: the states are handed out in breadth-first position, each node at
\* most once, only nodes that pass together with all their ancestors, and
\* once next() has returned None all of those.
C10_YieldsKeptBreadthFirst ==
    Constructed =>
        /\ \A i, j \in DOMAIN yielded :
            i < j => Before(yielded[i].tree, yielded[j].tree)
        /\ \A i \in DOMAIN yielded : yielded[i].tree \in Nodes(root) /\ Kept(yielded[i].tree)
        /\ Exhausted => YieldedNodes = {n \in Nodes(root) : Kept(n)}

\* An exhausted traversal under a predicate that cut off a subtree holding a
\* passing node, and handed out a node at depth 2 beside it.
C10_Witness ==
    /\ Exhausted
    /\ \E n \in Nodes(root) : ~Kept(n) /\ Passes(n)
    /\ Len(yielded) >= 3
    /\ \E i \in DOMAIN yielded : Len(yielded[i].tree) = 2

----------------------------------------------------------------------------
(* Properties of has_prefix.                                               *)

RECURSIVE PrefixRule(_, _)
\* The rule: the root values are equal, and the pattern has no children or
\* some child of the candidate matches some child of the pattern.
PrefixRule(c, p) ==
    /\ c.value = p.value
    /\ \/ p.children = <<>>
       \/ \E i \in DOMAIN c.children, j \in DOMAIN p.children :
            PrefixRule(c.children[i], p.children[j])

\* C4: has_prefix returns exactly the value of the recursive rule: false on
\* different root values, true on a childless pattern, otherwise whether
\* some candidate child has some pattern child as a prefix.
C4_HasPrefixIsRule ==
    result # None => result[1] = PrefixRule(candidate, pattern)

\* has_prefix returned true although the first candidate child does not
\* match the first pattern child and the pattern has a second child.
C4_Witness ==
    /\ result = Some(TRUE)
    /\ Len(pattern.children) >= 2
    /\ Len(candidate.children) >= 1
    /\ ~PrefixRule(candidate.children[1], pattern.children[1])

----------------------------------------------------------------------------
(* Properties of the graph.                                                *)

RECURSIVE Offset(_, _)
\* The number of targets of the first i nodes.
Offset(nodes, i) ==
    IF i = 0 THEN 0 ELSE Offset(nodes, i - 1) + Len(nodes[i].targets)

\* C5: links() returns one Link per (node, target) pair, nodes in order and
\* each node's targets in order, as many as there are targets in the graph,
\* whether or not a target's label is the label of a node.
C5_LinksPerTarget ==
    out # None =>
        LET ls == out[1]
            ns == graph.nodes
        IN  /\ Len(ls) = Offset(ns, Len(ns))
            /\ \A i \in DOMAIN ns : \A j \in DOMAIN ns[i].targets :
                ls[Offset(ns, i - 1) + j] =
                    Link(ns[i].typ, ns[i].targets[j].typ, ns[i].targets[j].rel)

\* links() has run on a graph of two nodes with targets, one of them a
\* label no node carries.
C5_Witness ==
    /\ out # None
    /\ Len(graph.nodes) = 2
    /\ \A i \in DOMAIN graph.nodes : graph.nodes[i].targets # <<>>
    /\ \E i \in DOMAIN graph.nodes : \E j \in DOMAIN graph.nodes[i].targets :
        \A k \in DOMAIN graph.nodes : graph.nodes[k].typ # graph.nodes[i].targets[j].typ
    /\ Len(out[1]) = 2

\* C6: invert is total on the four variants, inverting twice gives the
\* variant back, OneToMany and ManyToOne map to each other, OneToOne and
\* ManyToMany to themselves.
C6_InvertInvolution ==
    \A i \in DOMAIN rels :
        /\ rels[i] \in Relationship
        /\ (i + 2) \in DOMAIN rels => rels[i + 2] = rels[i]
        /\ (i + 1) \in DOMAIN rels =>
            /\ rels[i] = "OneToMany" => rels[i + 1] = "ManyToOne"
            /\ rels[i] = "ManyToOne" => rels[i + 1] = "OneToMany"
            /\ rels[i] = "OneToOne" => rels[i + 1] = "OneToOne"
            /\ rels[i] = "ManyToMany" => rels[i + 1] = "ManyToMany"

\* OneToMany has been inverted twice.
C6_Witness ==
    /\ Len(rels) >= 3
    /\ rels[1] = "OneToMany"

----------------------------------------------------------------------------
(* Termination and exhaustion of the traversal.                            *)

\* C11: the traversal terminates: once the iterator is constructed, repeated
\* calls of next() lead to a call that returns None with the queue empty,
\* and never more states are handed out than the tree has nodes.
C11_Terminates ==
    /\ [](Len(yielded) <= Cardinality(Nodes(root)))
    /\ Constructed ~> (Exhausted /\ queue = <<>>)

\* next() has returned None after handing out every node of a tree of at
\* least four nodes.
C11_Witness ==
    /\ Exhausted
    /\ queue = <<>>
    /\ Cardinality(Nodes(root)) >= 4
    /\ Len(yielded) = Cardinality(Nodes(root))

\* C13: once next() has returned None the queue is empty, and a later call
\* returns None again, hands out nothing and leaves the queue empty.
C13_StaysExhausted ==
    [][Exhausted =>
          /\ queue = <<>>
          /\ Exhausted'
          /\ queue' = <<>>
          /\ yielded' = yielded]_vars

\* next() has been called again after it returned None, on a traversal that
\* handed out something before.
C13_Witness ==
    /\ Exhausted
    /\ yielded # <<>>
    /\ calls >= Len(yielded) + 2

----------------------------------------------------------------------------
(* has_prefix as a test on paths.                                          *)

RECURSIVE LeafPaths(_)
\* The value sequences of the paths of t from its root to a leaf.
LeafPaths(t) ==
    IF t.children = <<>> THEN {<<t.value>>}
    ELSE UNION {{<<t.value>> \o w : w \in LeafPaths(t.children[i])} : i \in DOMAIN t.children}

\* The value sequences of the downward paths of t that start at its root.
DownPaths(t) ==
    {[k \in 1..(Len(n) + 1) |-> Deref(t, SubSeq(n, 1, k - 1)).value] : n \in Nodes(t)}

\* C12: has_prefix is true exactly when some root-to-leaf path of the
\* pattern spells the values of some downward path of the candidate from
\* its root; other branches of the pattern need not be matched.
C12_HasPrefixIsOnePath ==
    result # None =>
        result[1] = (LeafPaths(pattern) \cap DownPaths(candidate) # {})

\* has_prefix returned true on a pattern of depth 2 one of whose branches
\* cannot be followed in the candidate.
C12_Witness ==
    /\ result = Some(TRUE)
    /\ \E w \in LeafPaths(pattern) : Len(w) = 3 /\ w \in DownPaths(candidate)
    /\ \E w \in LeafPaths(pattern) : w \notin DownPaths(candidate)

\* C14: has_prefix is reflexive: a tree has itself as a prefix.
C14_HasPrefixReflexive ==
    (result # None /\ candidate = pattern) => result[1] = TRUE

\* has_prefix has run on a tree and itself, the tree of depth 2 with a
\* node of two children and a value that occurs twice among siblings.
C14_Witness ==
    /\ result # None
    /\ candidate = pattern
    /\ \E n \in Nodes(candidate) : Len(n) = 2
    /\ \E n \in Nodes(candidate) :
        LET cs == Deref(candidate, n).children
        IN  Len(cs) = 2 /\ cs[1].value = cs[2].value

----------------------------------------------------------------------------
(* The shape of the work queue.                                            *)

RECURSIVE LinkedToParents(_)
\* The parent link of state s is absent exactly for the root and otherwise
\* holds the state of the tree parent of s's node, linked the same way.
LinkedToParents(s) ==
    IF s.tree = <<>> THEN s.parent = None
    ELSE /\ s.parent # None
         /\ s.parent[1].tree = SubSeq(s.tree, 1, Len(s.tree) - 1)
         /\ LinkedToParents(s.parent[1])

\* C15: from front to back the queue never goes to a smaller depth, its
\* back is at most one level below its front, no node is in it twice, and
\* every queued state is linked to the state of its node's tree parent.
C15_QueueShape ==
    /\ \A i, j \in DOMAIN queue :
        i < j => /\ Len(queue[i].tree) <= Len(queue[j].tree)
                 /\ Len(queue[j].tree) <= Len(queue[i].tree) + 1
                 /\ queue[i].tree # queue[j].tree
    /\ \A i \in DOMAIN queue :
        /\ queue[i].tree \in Nodes(root)
        /\ LinkedToParents(queue[i])

\* The queue holds states of two depths, the deeper one at depth 2.
C15_Witness ==
    /\ Len(queue) >= 2
    /\ Len(queue[1].tree) = 1
    /\ Len(queue[Len(queue)].tree) = 2

====
